---- MODULE Spec2Model ----
(***************************************************************************)
(* Model of the quant-model repository: the backtesting engine             *)
(* (app/core/engine.py), the data pipeline with its retry decorator and    *)
(* batch fetch (app/data/pipeline.py) and the /backtest handler            *)
(* (app/api/endpoints.py).                                                 *)
(*                                                                         *)
(* Series are 1-based sequences here; period t of the code (0-based) is    *)
(* element t+1.  Floating-point values are modelled as exact rationals     *)
(* plus the two special values not-a-number and +/-infinity; rounding is   *)
(* not modelled.                                                           *)
(***************************************************************************)
EXTENDS Integers, Sequences, FiniteSets, TLC

\* ------------------------------------------------------------------ bounds
MaxLen == 3
MaxRows == 2
MaxSymbols == 2

\* ------------------------------------------------------------------ floats
RECURSIVE GCD(_, _)
GCD(a, b) == IF b = 0 THEN a ELSE GCD(b, a % b)

Abs(x) == IF x < 0 THEN -x ELSE x

NaN == [k |-> "nan", n |-> 0, d |-> 1]

Inf(s) == [k |-> "inf", n |-> s, d |-> 1]

Num(n, d) ==
    LET g == GCD(Abs(n), d) IN [k |-> "num", n |-> n \div g, d |-> d \div g]

I(n) == Num(n, 1)

IsNaN(x) == x.k = "nan"

Sign(n) == IF n > 0 THEN 1 ELSE IF n < 0 THEN -1 ELSE 0

FNeg(a) == IF a.k = "nan" THEN NaN ELSE [a EXCEPT !.n = -a.n]

FAdd(a, b) ==
    IF a.k = "nan" \/ b.k = "nan" THEN NaN
    ELSE IF a.k = "inf" THEN (IF b.k = "inf" /\ b.n # a.n THEN NaN ELSE a)
    ELSE IF b.k = "inf" THEN b
    ELSE Num(a.n * b.d + b.n * a.d, a.d * b.d)

FSub(a, b) == FAdd(a, FNeg(b))

FMul(a, b) ==
    IF a.k = "nan" \/ b.k = "nan" THEN NaN
    ELSE IF a.k = "inf" \/ b.k = "inf"
         THEN (IF a.n = 0 \/ b.n = 0 THEN NaN ELSE Inf(Sign(a.n) * Sign(b.n)))
    ELSE Num(a.n * b.n, a.d * b.d)

\* IEEE division as numpy performs it on float64 columns: 0/0 is not-a-number,
\* x/0 is a signed infinity, nothing raises.
FDiv(a, b) ==
    IF a.k = "nan" \/ b.k = "nan" THEN NaN
    ELSE IF b.k = "inf" THEN (IF a.k = "inf" THEN NaN ELSE I(0))
    ELSE IF a.k = "inf" THEN (IF b.n < 0 THEN Inf(-a.n) ELSE a)
    ELSE IF b.n = 0 THEN (IF a.n = 0 THEN NaN ELSE Inf(Sign(a.n)))
    ELSE Num(a.n * b.d * Sign(b.n), a.d * Abs(b.n))

\* a < b; every comparison with not-a-number is false.
FLess(a, b) ==
    IF a.k = "nan" \/ b.k = "nan" THEN FALSE
    ELSE IF a.k = "inf" THEN a.n < 0 /\ ~(b.k = "inf" /\ b.n < 0)
    ELSE IF b.k = "inf" THEN b.n > 0
    ELSE a.n * b.d < b.n * a.d

\* a == b and a != b as pandas/numpy evaluate them: NaN == x is false,
\* NaN != x is true.
FEq(a, b) == a.k # "nan" /\ b.k # "nan" /\ a = b

FNe(a, b) == ~FEq(a, b)

FLeq(a, b) == FLess(a, b) \/ FEq(a, b)

\* ------------------------------------------------------------------ series
\* pandas operations on one column, with pandas' default skipna=True.

Idx(s) == 1..Len(s)

\* Series.shift(0): no shift, the signal of period t is held in period t.
shift_none(s) == s

\* Series.shift(1): the first element becomes not-a-number.
shift(s) == [t \in Idx(s) |-> IF t = 1 THEN NaN ELSE s[t - 1]]

\* Series.fillna(0)
fillna(s) == [t \in Idx(s) |-> IF IsNaN(s[t]) THEN I(0) ELSE s[t]]

\* Series.pct_change(): close[t] / close[t-1] - 1, undefined for the first row.
pct_change(s) ==
    [t \in Idx(s) |-> IF t = 1 THEN NaN ELSE FSub(FDiv(s[t], s[t - 1]), I(1))]

RECURSIVE ProdTo(_, _)
ProdTo(s, t) ==
    IF t = 0 THEN I(1)
    ELSE IF IsNaN(s[t]) THEN ProdTo(s, t - 1)
    ELSE FMul(ProdTo(s, t - 1), s[t])

\* Series.cumprod(): not-a-number entries are skipped and stay not-a-number.
cumprod(s) == [t \in Idx(s) |-> IF IsNaN(s[t]) THEN NaN ELSE ProdTo(s, t)]

\* The larger of a running maximum and the next entry, skipping not-a-number.
FMax(m, x) ==
    IF IsNaN(x) THEN m ELSE IF IsNaN(m) \/ FLess(m, x) THEN x ELSE m

RECURSIVE MaxTo(_, _)
MaxTo(s, t) == IF t = 0 THEN NaN ELSE FMax(MaxTo(s, t - 1), s[t])

\* Series.cummax()
cummax(s) == [t \in Idx(s) |-> IF IsNaN(s[t]) THEN NaN ELSE MaxTo(s, t)]

\* The smaller of a running minimum and the next entry, skipping not-a-number.
FMin(m, x) ==
    IF IsNaN(x) THEN m ELSE IF IsNaN(m) \/ FLess(x, m) THEN x ELSE m

RECURSIVE MinTo(_, _)
MinTo(s, t) == IF t = 0 THEN NaN ELSE FMin(MinTo(s, t - 1), s[t])

\* Series.min(): not-a-number when no entry is defined.
min(s) == MinTo(s, Len(s))

RECURSIVE SumTo(_, _)
SumTo(s, t) ==
    IF t = 0 THEN I(0)
    ELSE IF IsNaN(s[t]) THEN SumTo(s, t - 1)
    ELSE FAdd(SumTo(s, t - 1), s[t])

count(s) == Cardinality({t \in Idx(s) : ~IsNaN(s[t])})

\* Series.mean(): not-a-number when no entry is defined (0/0).
mean(s) == FDiv(SumTo(s, Len(s)), I(count(s)))

\* Series.var() with ddof=1: not-a-number with fewer than two defined entries.
var(s) ==
    IF count(s) < 2 THEN NaN
    ELSE LET m == mean(s)
             sq == [t \in Idx(s) |->
                      IF IsNaN(s[t]) THEN NaN
                      ELSE FMul(FSub(s[t], m), FSub(s[t], m))]
         IN FDiv(SumTo(sq, Len(sq)), I(count(s) - 1))

\* The sign class of a float: the magnitude of Series.std() (a square root)
\* and of the metrics built from irrational powers and roots is not
\* represented, only whether the value is nan, zero, positive or negative.
Class(x) ==
    IF x.k = "nan" THEN "nan"
    ELSE IF x.n = 0 THEN "zero" ELSE IF x.n > 0 THEN "pos" ELSE "neg"

\* Series.std(): the square root of var(), as a sign class.
std(s) == Class(var(s))

\* Series.rolling(window).mean(): undefined until the window is full.
rolling_mean(s, window) ==
    [t \in Idx(s) |->
        IF window < 1 \/ t < window THEN NaN
        ELSE FDiv(FSub(SumTo(s, t), SumTo(s, t - window)), I(window))]

\* ------------------------------------------------------------------ engine
\* Daily risk-free rate, 0.03 / 252.
rf == Num(3, 25200)

DefaultShortWindow == 20
DefaultLongWindow == 50

\* dict.get(key, default) on the strategy parameters.
Get(params, key, default) ==
    IF key \in DOMAIN params THEN params[key] ELSE default

\* example_sma_strategy: 1 where the short mean is above the long mean, -1
\* where it is below, 0 elsewhere (comparisons with an undefined mean are
\* false).
example_sma_strategy(data, params) ==
    LET short_window == Get(params, "short_window", DefaultShortWindow)
        long_window == Get(params, "long_window", DefaultLongWindow)
        sma_short == rolling_mean(data.cols.close, short_window)
        sma_long == rolling_mean(data.cols.close, long_window)
    IN [t \in Idx(data.index) |->
          IF FLess(sma_short[t], sma_long[t]) THEN I(-1)
          ELSE IF FLess(sma_long[t], sma_short[t]) THEN I(1)
          ELSE I(0)]

\* (1 + total_return) ** (365.25 / days) - 1 on numpy floats, as a sign class:
\* a negative base to a fractional power is not-a-number (365.25 / days is
\* never an integer); for a base >= 0 the result has the sign of base - 1.
annualize(total_return, days) ==
    LET base == FAdd(I(1), total_return) IN
    IF IsNaN(base) \/ FLess(base, I(0)) THEN "nan"
    ELSE Class(FSub(base, I(1)))

\* The Sharpe ratio from the standard deviation (a sign class) and the mean of
\* the excess returns: the fallback 0 when the deviation == 0; otherwise
\* mean / std * sqrt(252), which is not-a-number when the deviation is and
\* has the sign of the mean else.
sharpe(deviation, average) ==
    IF deviation = "zero" THEN "zero"
    ELSE IF deviation = "nan" THEN "nan"
    ELSE Class(average)

\* Backtester._calculate_metrics
calculate_metrics(df, initial_capital) ==
    LET last == Len(df.equity)
        total_return == FSub(FDiv(df.equity[last], initial_capital), I(1))
        days == df.index[last] - df.index[1]
        annualized_return ==
            IF days <= 0 THEN "zero" ELSE annualize(total_return, days)
        rolling_max == cummax(df.equity)
        drawdown == [t \in Idx(df.equity) |->
                       FDiv(FSub(df.equity[t], rolling_max[t]), rolling_max[t])]
        max_drawdown == min(drawdown)
        excess_returns == [t \in Idx(df.equity) |->
                             FSub(df.strategy_return[t], rf)]
        sharpe_ratio == sharpe(std(excess_returns), mean(excess_returns))
        trades == {t \in Idx(df.equity) : FNe(df.strategy_return[t], I(0))}
        wins == {t \in trades : FLess(I(0), df.strategy_return[t])}
        win_rate ==
            IF Cardinality(trades) > 0
            THEN Num(Cardinality(wins), Cardinality(trades))
            ELSE I(0)
    IN [annualized_return |-> annualized_return,
        max_drawdown |-> max_drawdown,
        sharpe_ratio |-> sharpe_ratio,
        win_rate |-> win_rate,
        total_trades |->
            Cardinality({t \in Idx(df.signal) : FNe(df.signal[t], I(0))})]

\* The body of Backtester.run after the strategy has produced its signals:
\* the derived columns, the metrics and the result record.
run(data, initial_capital, signals) ==
    LET position == fillna(shift(signals))
        market_return == pct_change(data.cols.close)
        strategy_return ==
            [t \in Idx(data.index) |-> FMul(position[t], market_return[t])]
        cumulative_return ==
            cumprod([t \in Idx(data.index) |-> FAdd(I(1), strategy_return[t])])
        equity ==
            [t \in Idx(data.index) |-> FMul(initial_capital, cumulative_return[t])]
        df == [index |-> data.index, signal |-> signals,
               strategy_return |-> strategy_return, equity |-> equity]
    IN [metrics |-> calculate_metrics(df, initial_capital),
        equity_curve |->
            [t \in Idx(data.index) |->
                [date |-> data.index[t], equity |-> equity[t],
                 strategy_return |-> strategy_return[t]]],
        signals |->
            [t \in Idx(data.index) |->
                [date |-> data.index[t], signal |-> signals[t],
                 position |-> position[t]]]]

\* ------------------------------------------------------------------ pipeline
\* A symbol is a sequence of characters.
Digits == {"0", "1", "2", "3", "4", "5", "6", "7", "8", "9"}

isdigit(c) == c \in Digits

\* ''.join(filter(str.isdigit, symbol))
clean_symbol(symbol) == SelectSeq(symbol, isdigit)

\* The vendor's native headers, transliterated: riqi, kaipan, shoupan, zuigao,
\* zuidi, chengjiaoliang, chengjiaoe, zhenfu, zhangdiefu, zhangdiee and
\* huanshoulv stand for the Chinese headers of the source.
rename_map ==
    [riqi |-> "date", kaipan |-> "open", shoupan |-> "close",
     zuigao |-> "high", zuidi |-> "low", chengjiaoliang |-> "volume",
     chengjiaoe |-> "amount", zhenfu |-> "amplitude",
     zhangdiefu |-> "pct_chg", zhangdiee |-> "change",
     huanshoulv |-> "turnover"]

\* DataFrame.rename(columns=rename_map): unknown headers are kept.
rename(columns) ==
    [i \in DOMAIN columns |->
        IF columns[i] \in DOMAIN rename_map THEN rename_map[columns[i]]
        ELSE columns[i]]

\* A vendor date is a <<month, day>> of one non-leap year; pd.to_datetime
\* turns it into a timestamp, counted here in days since the year began.
DaysBeforeMonth == <<0, 31, 59, 90, 120, 151, 181, 212, 243, 273, 304, 334>>

to_datetime(date) == DaysBeforeMonth[date[1]] + date[2]

\* pd.DataFrame(): no rows, no columns.
EmptyDataFrame == [index |-> << >>, cols |-> << >>]

\* The success path of fetch_stock_daily after the vendor call returned a
\* non-empty frame: rename the headers, fall back to the first column when no
\* 'date' column exists, parse the dates and make them the index.  The rows
\* keep the order the vendor gave them.
normalise(frame) ==
    LET renamed == rename(frame.columns)
        columns == IF \E i \in DOMAIN renamed : renamed[i] = "date" THEN renamed
                   ELSE [renamed EXCEPT ![1] = "date"]
        di == CHOOSE i \in DOMAIN columns : columns[i] = "date"
        others == {columns[i] : i \in DOMAIN columns \ {di}}
    IN [index |-> [r \in DOMAIN frame.rows |-> to_datetime(frame.rows[r][di])],
        cols |-> [c \in others |->
                    LET ci == CHOOSE i \in DOMAIN columns : columns[i] = c
                    IN [r \in DOMAIN frame.rows |-> frame.rows[r][ci]]]]

\* Exceptions: type, message and whether the class derives from Exception
\* (asyncio.CancelledError derives from BaseException only).
CancelledError ==
    [type |-> "CancelledError", msg |-> "", is_exception |-> FALSE]

Series(df) == [kind |-> "series", df |-> df]

Error(exc) == [kind |-> "error", exc |-> exc]

NoOutcome == [kind |-> "none"]

\* One attempt of the body of fetch_stock_daily, given what the vendor call
\* did: an exception is logged and raised again as the same object, an empty
\* frame gives an empty DataFrame, any other frame is normalised.
fetch_attempt(vendor) ==
    IF vendor.kind = "raise" THEN Error(vendor.exc)
    ELSE IF Len(vendor.frame.rows) = 0 THEN Series(EmptyDataFrame)
    ELSE Series(normalise(vendor.frame))

\* The retry decorator of fetch_stock_daily.
StopAfterAttempt == 3
WaitMultiplier == 1
WaitMin == 4
WaitMax == 10

Min2(a, b) == IF a < b THEN a ELSE b

Max2(a, b) == IF a > b THEN a ELSE b

\* stop_after_attempt(4): one attempt too many.
stop_late(attempt_number) == attempt_number >= StopAfterAttempt + 1

\* stop_after_attempt(3)
stop(attempt_number) == attempt_number >= StopAfterAttempt

\* wait_exponential(multiplier=1, min=4, max=10)
wait_exponential(attempt_number) ==
    Max2(WaitMin, Min2(WaitMultiplier * 2 ^ (attempt_number - 1), WaitMax))

\* retry_if_exception_type(BaseException): a cancellation is retried too.
retry_if_base_exception(exc) == TRUE

\* retry_if_exception_type(Exception)
retry_if_exception_type(exc) == exc.is_exception

\* reraise=True: when the retries stop, the last attempt's exception is raised
\* as it is.
reraise(exc) == exc

\* What the decorator does with the outcome of one attempt: return a result,
\* raise, or sleep before the next attempt.
after_attempt(task, res) ==
    LET t == [task EXCEPT !.history = Append(@, res)] IN
    IF res.kind = "series" THEN [t EXCEPT !.state = "done", !.outcome = res]
    ELSE IF ~retry_if_exception_type(res.exc)
         THEN [t EXCEPT !.state = "done", !.outcome = res]
    ELSE IF stop(task.attempt_number)
         THEN [t EXCEPT !.state = "done", !.outcome = Error(reraise(res.exc))]
    ELSE [t EXCEPT !.state = "sleeping",
                   !.wait = wait_exponential(task.attempt_number)]

\* A fetch_stock_daily coroutine that has not run yet.
NewTask(symbol) ==
    [symbol |-> symbol, query |-> << >>, state |-> "created",
     must_cancel |-> FALSE, attempt_number |-> 0, wait |-> 0,
     history |-> << >>, outcome |-> NoOutcome]

\* The coroutine starts an attempt: it cleans the symbol and issues the
\* vendor query on a worker thread.
begin_attempt(task) ==
    [task EXCEPT !.state = "attempting", !.wait = 0,
                 !.query = clean_symbol(task.symbol),
                 !.attempt_number = @ + 1]

Finished(task) == task.state = "done"

\* asyncio.gather(*tasks) without return_exceptions: the first exception is
\* raised to the caller.
gather_raising(ts) ==
    IF \E i \in DOMAIN ts : ts[i].outcome.kind = "error"
    THEN [kind |-> "raise",
          exc |-> ts[CHOOSE i \in DOMAIN ts : ts[i].outcome.kind = "error"].outcome.exc]
    ELSE [kind |-> "return", value |-> [i \in DOMAIN ts |-> ts[i].outcome]]

\* asyncio.gather(*tasks, return_exceptions=True): one entry per task, in the
\* order of the arguments; a task's exception is its entry.
gather(ts) ==
    [kind |-> "return",
     value |-> [i \in DOMAIN ts |-> ts[i].outcome]]

\* ------------------------------------------------------------------ endpoint
\* The name-to-function registry of run_backtest.
strategies == {"SMA"}

HTTPException(status_code, detail) ==
    [type |-> "HTTPException", status_code |-> status_code, msg |-> detail,
     is_exception |-> TRUE]

NoResults == [metrics |-> << >>, equity_curve |-> << >>, signals |-> << >>]

NoTester ==
    [constructed |-> FALSE, data |-> EmptyDataFrame, initial_capital |-> I(0),
     run_called |-> FALSE, results |-> NoResults]

\* Backtester.__init__
Backtester(data, initial_capital) ==
    [constructed |-> TRUE, data |-> data, initial_capital |-> initial_capital,
     run_called |-> FALSE, results |-> NoResults]

\* The except clause of run_backtest: every Exception, the handler's own
\* HTTPException included, is raised again as a 500 whose detail is str(e).
internal_error(tester, exc) ==
    [tester |-> tester,
     reply |-> [kind |-> "raise",
                exc |-> HTTPException(500, exc)]]

\* run_backtest from the point where the awaited fetch_stock_daily has
\* finished with `outcome`, to the handler's return or raise.
run_backtest(params, outcome) ==
    IF outcome.kind = "error" THEN internal_error(NoTester, outcome.exc)
    ELSE IF Len(outcome.df.index) = 0
         THEN internal_error(NoTester, HTTPException(404, "No data found"))
    ELSE LET tester == Backtester(outcome.df, params.initial_capital) IN
         IF params.strategy_name \notin strategies
         THEN internal_error(tester, HTTPException(400, "not implemented"))
         ELSE IF "close" \notin DOMAIN outcome.df.cols
         THEN internal_error([tester EXCEPT !.run_called = TRUE],
                  [type |-> "KeyError", msg |-> "close", is_exception |-> TRUE])
         ELSE LET result == run(tester.data, tester.initial_capital,
                               example_sma_strategy(tester.data,
                                                    params.parameters))
              IN [tester |-> [tester EXCEPT !.run_called = TRUE,
                                            !.results = result],
                  reply |-> [kind |-> "return", value |-> result]]

\* ------------------------------------------------------------------ inputs
SignalValues == {I(-1), I(0), I(1), NaN}

\* Closing prices: positive, and far enough apart for a price to more than
\* double from one period to the next.
Closes == {I(1), I(2), I(3)}

InitialCapitals == {I(1), I(100000)}

\* Strategy parameters: none (the defaults apply) or explicit windows.
Parameters ==
    {<< >>, [short_window |-> 1, long_window |-> 2],
     [short_window |-> 2, long_window |-> 1]}

\* A series handed to the engine: consecutive daily timestamps (sorted, no
\* duplicates) and positive closing prices.
EngineFrames ==
    UNION {{[index |-> [t \in 1..n |-> to_datetime(<<1, t>>)],
             cols |-> [close |-> c]] : c \in [1..n -> Closes]} : n \in 1..MaxLen}

Symbols == {<<"s", "h", "6">>, <<"s", "z", "6">>, <<"0", "7">>}

VendorDates == {<<1, 30>>, <<1, 31>>, <<2, 1>>}

\* Header layouts of a vendor response: the native headers in either order,
\* headers that are canonical already, and an unknown date header.
Layouts ==
    {<<"riqi", "shoupan">>, <<"shoupan", "riqi">>, <<"date", "close">>,
     <<"day", "shoupan">>}

FrameOf(layout, content) ==
    [columns |-> layout,
     rows |-> [r \in DOMAIN content |->
                 IF layout[1] = "shoupan"
                 THEN <<content[r][2], content[r][1]>>
                 ELSE <<content[r][1], content[r][2]>>]]

\* Vendor responses: up to MaxRows rows, in any order, dates may repeat.
VendorFrames ==
    {FrameOf(l, c) : l \in Layouts,
                     c \in UNION {[1..n -> VendorDates \X Closes] : n \in 0..MaxRows}}

\* The vendor responses of the batch fetch: no rows, or one row.
BatchFrames ==
    {FrameOf(<<"riqi", "shoupan">>, c) :
        c \in {<< >>, <<<<<<1, 30>>, I(1)>>>>}}

VendorErrors ==
    {[type |-> "ConnectionError", msg |-> "reset", is_exception |-> TRUE],
     [type |-> "ValueError", msg |-> "no tables", is_exception |-> TRUE]}

BatchErrors ==
    {[type |-> "ConnectionError", msg |-> "reset", is_exception |-> TRUE]}

Requests ==
    [symbol : Symbols, strategy_name : {"SMA", "MACD"},
     initial_capital : {I(100000)}, parameters : Parameters]

SymbolLists == UNION {[1..n -> Symbols] : n \in 0..MaxSymbols}

\* ------------------------------------------------------------------ state
VARIABLES
    tester,   \* the Backtester instance: data, initial_capital, results
    tasks,    \* the fetch_stock_daily coroutines in flight, in creation order
    call,     \* the operation in progress and its arguments
    reply     \* what the operation returned or raised to its caller

vars == <<tester, tasks, call, reply>>

NoCall == [op |-> "none", state |-> "idle", args |-> << >>]

NoReply == [kind |-> "none"]

Idle == /\ tasks = << >>
        /\ call = NoCall
        /\ reply = NoReply

\* Engine: the state after Backtester(data, initial_capital).
InitEngine ==
    /\ tester \in {Backtester(d, c) : d \in EngineFrames, c \in InitialCapitals}
    /\ Idle

\* Pipeline and endpoint: nothing called yet.
Init ==
    /\ tester = NoTester
    /\ Idle

\* ------------------------------------------------------------------ engine actions
\* Backtester.run with an arbitrary strategy function, which is given by the
\* signal series it returns for the data.
Run(signals) ==
    /\ tester.constructed
    /\ ~tester.run_called
    /\ tester' = [tester EXCEPT
                    !.run_called = TRUE,
                    !.results = run(tester.data, tester.initial_capital, signals)]
    /\ UNCHANGED <<tasks, call, reply>>

RunStrategy ==
    \E signals \in [Idx(tester.data.index) -> SignalValues] : Run(signals)

\* Backtester.run with the reference strategy.
RunSMA ==
    \E params \in Parameters : Run(example_sma_strategy(tester.data, params))

EngineNext == RunStrategy \/ RunSMA

SpecEngine == InitEngine /\ [][EngineNext]_vars

\* ------------------------------------------------------------------ pipeline actions
ReplyOf(outcome) ==
    IF outcome.kind = "series" THEN [kind |-> "return", value |-> outcome.df]
    ELSE [kind |-> "raise", exc |-> outcome.exc]

\* The coroutine that awaits a fetch directly continues in the same step in
\* which the fetch finishes; the join of a batch is a callback of its own.
Resume(ts) ==
    IF call.op = "fetch_stock_daily" /\ Finished(ts[1])
    THEN /\ call' = [call EXCEPT !.state = "done"]
         /\ reply' = ReplyOf(ts[1].outcome)
         /\ UNCHANGED tester
    ELSE IF call.op = "run_backtest" /\ Finished(ts[1])
    THEN LET r == run_backtest(call.args, ts[1].outcome) IN
         /\ call' = [call EXCEPT !.state = "done"]
         /\ reply' = r.reply
         /\ tester' = r.tester
    ELSE UNCHANGED <<call, reply, tester>>

\* await pipeline.fetch_stock_daily(symbol, ...): the first attempt starts at
\* once.
CallFetch ==
    \E symbol \in Symbols :
        /\ call = NoCall
        /\ call' = [op |-> "fetch_stock_daily", state |-> "awaiting",
                    args |-> [symbol |-> symbol]]
        /\ tasks' = <<begin_attempt(NewTask(symbol))>>
        /\ UNCHANGED <<tester, reply>>

\* POST /backtest: the handler starts with the fetch.
ReceiveBacktest ==
    \E params \in Requests :
        /\ call = NoCall
        /\ call' = [op |-> "run_backtest", state |-> "awaiting", args |-> params]
        /\ tasks' = <<begin_attempt(NewTask(params.symbol))>>
        /\ UNCHANGED <<tester, reply>>

\* get_multi_stocks: one coroutine per symbol, handed to asyncio.gather, which
\* schedules each as a task.
CallGetMulti ==
    \E symbols \in SymbolLists :
        /\ call = NoCall
        /\ call' = [op |-> "get_multi_stocks", state |-> "awaiting",
                    args |-> [symbols |-> symbols]]
        /\ tasks' = [i \in DOMAIN symbols |-> NewTask(symbols[i])]
        /\ UNCHANGED <<tester, reply>>

\* A scheduled task runs for the first time.
Start(i) ==
    /\ tasks[i].state = "created"
    /\ ~tasks[i].must_cancel
    /\ tasks' = [tasks EXCEPT ![i] = begin_attempt(@)]
    /\ UNCHANGED <<tester, call, reply>>

\* The vendor call of the running attempt raises.
VendorRaises(i, errors) ==
    \E e \in errors :
        /\ tasks[i].state = "attempting"
        /\ ~tasks[i].must_cancel
        /\ tasks' = [tasks EXCEPT ![i] =
                        after_attempt(@, fetch_attempt([kind |-> "raise",
                                                        exc |-> e]))]
        /\ Resume(tasks')

\* The vendor call of the running attempt returns a frame.
VendorReturns(i, frames) ==
    \E f \in frames :
        /\ tasks[i].state = "attempting"
        /\ ~tasks[i].must_cancel
        /\ tasks' = [tasks EXCEPT ![i] =
                        after_attempt(@, fetch_attempt([kind |-> "frame",
                                                        frame |-> f]))]
        /\ Resume(tasks')

\* The backoff sleep is over: the next attempt starts.
Wake(i) ==
    /\ tasks[i].state = "sleeping"
    /\ ~tasks[i].must_cancel
    /\ tasks' = [tasks EXCEPT ![i] = begin_attempt(@)]
    /\ UNCHANGED <<tester, call, reply>>

\* All tasks of the batch are finished: the awaiting get_multi_stocks
\* returns gather's result, or raises CancelledError when it was cancelled.
GatherDone ==
    /\ call.op = "get_multi_stocks"
    /\ call.state \in {"awaiting", "cancelling"}
    /\ \A i \in DOMAIN tasks : Finished(tasks[i])
    /\ call' = [call EXCEPT !.state = "done"]
    /\ reply' = IF call.state = "cancelling"
                THEN [kind |-> "raise", exc |-> CancelledError]
                ELSE gather(tasks)
    /\ UNCHANGED <<tester, tasks>>

\* The enclosing get_multi_stocks call is cancelled while tasks are pending:
\* gather's future cancels every child that is not done.
Cancel ==
    /\ call.op = "get_multi_stocks"
    /\ call.state = "awaiting"
    /\ \E i \in DOMAIN tasks : ~Finished(tasks[i])
    /\ call' = [call EXCEPT !.state = "cancelling"]
    /\ tasks' = [i \in DOMAIN tasks |->
                    IF Finished(tasks[i]) THEN tasks[i]
                    ELSE [tasks[i] EXCEPT !.must_cancel = TRUE]]
    /\ UNCHANGED <<tester, reply>>

\* CancelledError is thrown into a task at the point where it waits: a task
\* that never ran ends at once, a task inside an attempt has the exception
\* pass through the attempt to the retry decorator, a task in a backoff sleep
\* has it raised out of the decorator's sleep.
throw_cancel(task) ==
    LET t == [task EXCEPT !.must_cancel = FALSE] IN
    IF task.state = "attempting"
    THEN after_attempt(t, fetch_attempt([kind |-> "raise",
                                         exc |-> CancelledError]))
    ELSE [t EXCEPT !.state = "done", !.outcome = Error(CancelledError)]

DeliverCancel(i) ==
    /\ tasks[i].must_cancel
    /\ ~Finished(tasks[i])
    /\ tasks' = [tasks EXCEPT ![i] = throw_cancel(@)]
    /\ UNCHANGED <<tester, call, reply>>

Starts == \E i \in DOMAIN tasks : Start(i)

Raises(errors) == \E i \in DOMAIN tasks : VendorRaises(i, errors)

Returns(frames) == \E i \in DOMAIN tasks : VendorReturns(i, frames)

Wakes == \E i \in DOMAIN tasks : Wake(i)

DeliverCancels == \E i \in DOMAIN tasks : DeliverCancel(i)

FetchNext ==
    \/ CallFetch
    \/ Raises(VendorErrors)
    \/ Returns(VendorFrames)
    \/ Wakes

MultiNext ==
    \/ CallGetMulti
    \/ Starts
    \/ Raises(BatchErrors)
    \/ Returns(BatchFrames)
    \/ Wakes
    \/ GatherDone

CancelNext ==
    \/ MultiNext
    \/ Cancel
    \/ DeliverCancels

ApiNext ==
    \/ ReceiveBacktest
    \/ Raises(BatchErrors)
    \/ Returns(VendorFrames)
    \/ Wakes

\* One fetch_stock_daily call.
SpecFetch == Init /\ [][FetchNext]_vars

\* One get_multi_stocks call that nobody cancels.
SpecMulti == Init /\ [][MultiNext]_vars

\* One get_multi_stocks call that may be cancelled.
SpecCancel == Init /\ [][CancelNext]_vars

\* One POST /backtest request.
SpecApi == Init /\ [][ApiNext]_vars

\* ------------------------------------------------------------------ engine claims
ResultSignal == [t \in DOMAIN tester.results.signals |->
                    tester.results.signals[t].signal]

ResultPosition == [t \in DOMAIN tester.results.signals |->
                      tester.results.signals[t].position]

ResultReturn == [t \in DOMAIN tester.results.equity_curve |->
                    tester.results.equity_curve[t].strategy_return]

ResultEquity == [t \in DOMAIN tester.results.equity_curve |->
                    tester.results.equity_curve[t].equity]

Metrics == tester.results.metrics

\* C1: after Backtester.run the position of the first period is 0 and the
\* position of every later period is the signal of the period before it (0
\* when that signal is undefined); no position uses its own period's signal.
C1_NoLookAhead ==
    tester.run_called =>
        \A t \in DOMAIN ResultPosition :
            ResultPosition[t] =
                IF t = 1 \/ IsNaN(ResultSignal[t - 1]) THEN I(0)
                ELSE ResultSignal[t - 1]

C1_Witness ==
    /\ tester.run_called
    /\ ResultSignal = <<I(1), NaN, I(-1)>>
    /\ ResultPosition = <<I(0), I(1), I(0)>>

\* C5: for a non-empty series and signals in {-1, 0, 1}, run returns and no
\* metric is not-a-number; a day span <= 0 gives annualized_return 0,
\* zero-variance excess returns give sharpe_ratio 0 and a run without a
\* nonzero-return period gives win_rate 0.
C5_DegenerateFallback ==
    (tester.run_called /\ \A t \in DOMAIN ResultSignal : ~IsNaN(ResultSignal[t]))
    =>
        /\ Metrics.annualized_return # "nan"
        /\ ~IsNaN(Metrics.max_drawdown)
        /\ Metrics.sharpe_ratio # "nan"
        /\ ~IsNaN(Metrics.win_rate)
        /\ (tester.data.index[Len(tester.data.index)] - tester.data.index[1] <= 0
              => Metrics.annualized_return = "zero")
        /\ ((\A t, u \in DOMAIN ResultReturn :
                (~IsNaN(ResultReturn[t]) /\ ~IsNaN(ResultReturn[u]))
                    => ResultReturn[t] = ResultReturn[u])
              => Metrics.sharpe_ratio = "zero")
        /\ ((\A t \in DOMAIN ResultReturn :
                IsNaN(ResultReturn[t]) \/ ResultReturn[t] = I(0))
              => Metrics.win_rate = I(0))

NonDecreasing(e) ==
    \A t \in 1..(Len(e) - 1) :
        (~IsNaN(e[t]) /\ ~IsNaN(e[t + 1])) => ~FLess(e[t + 1], e[t])

\* C6: max_drawdown is <= 0, and it is 0 exactly when the equity curve never
\* decreases, whatever the sign of the equity.
C6_MaxDrawdown ==
    tester.run_called =>
        /\ FLeq(Metrics.max_drawdown, I(0))
        /\ FEq(Metrics.max_drawdown, I(0)) <=> NonDecreasing(ResultEquity)

\* C7: with at least two periods and signal 0 in every period, the equity of
\* every period after the first is initial_capital and the five metrics are 0.
C7_AllHold ==
    (/\ tester.run_called
     /\ Len(ResultSignal) >= 2
     /\ \A t \in DOMAIN ResultSignal : ResultSignal[t] = I(0))
    =>
        /\ \A t \in 2..Len(ResultEquity) :
              ResultEquity[t] = tester.initial_capital
        /\ Metrics.annualized_return = "zero"
        /\ Metrics.max_drawdown = I(0)
        /\ Metrics.sharpe_ratio = "zero"
        /\ Metrics.win_rate = I(0)
        /\ Metrics.total_trades = 0

\* C9: win_rate is the number of periods with a positive strategy return
\* divided by the number of periods whose strategy return is a nonzero
\* return, 0 when there is none; the first period, whose market return is
\* undefined, is no trade.
C9_WinRate ==
    tester.run_called =>
        LET traded == {t \in DOMAIN ResultReturn :
                          ~IsNaN(ResultReturn[t]) /\ ResultReturn[t] # I(0)}
            won == {t \in traded : FLess(I(0), ResultReturn[t])}
        IN Metrics.win_rate =
              IF traded = {} THEN I(0)
              ELSE Num(Cardinality(won), Cardinality(traded))


\* ------------------------------------------------------------------ pipeline claims
IsError(res) == res.kind = "error"

\* C2: one fetch_stock_daily call makes at most 3 attempts; an attempt is
\* followed by another exactly when it raised and was not the third; two
\* failures followed by a success return the third attempt's series; three
\* failures raise the third attempt's exception itself.
C2_Retry ==
    call.op = "fetch_stock_daily" =>
        LET t == tasks[1]
            h == t.history
        IN /\ t.attempt_number <= 3
           /\ Len(h) <= t.attempt_number
           /\ t.attempt_number <= Len(h) + 1
           /\ \A k \in 1..(t.attempt_number - 1) : IsError(h[k])
           /\ (t.state = "sleeping" => IsError(h[Len(h)]) /\ Len(h) < 3)
           /\ (Finished(t) /\ IsError(h[Len(h)]) => Len(h) = 3)
           /\ (Finished(t) /\ ~IsError(h[Len(h)])
                 => reply = [kind |-> "return", value |-> h[Len(h)].df])
           /\ (Finished(t) /\ IsError(h[Len(h)])
                 => reply = [kind |-> "raise", exc |-> h[3].exc])

C2_Witness ==
    /\ call.op = "fetch_stock_daily"
    /\ Len(tasks[1].history) = 3
    /\ IsError(tasks[1].history[1])
    /\ IsError(tasks[1].history[2])
    /\ IsError(tasks[1].history[3])
    /\ tasks[1].history[2].exc # tasks[1].history[3].exc
    /\ reply = [kind |-> "raise", exc |-> tasks[1].history[3].exc]

\* C4: the series fetch_stock_daily returns for a non-empty vendor response
\* has a strictly increasing date index, whatever the order of the vendor's
\* rows and whether or not a date repeats.
C4_SortedUniqueIndex ==
    (call.op = "fetch_stock_daily" /\ reply.kind = "return") =>
        \A i, j \in DOMAIN reply.value.index :
            i < j => reply.value.index[i] < reply.value.index[j]

\* C3: a get_multi_stocks call that is not cancelled never raises; when it
\* returns, all fetch tasks are finished and entry i of the result is the
\* outcome of the fetch of symbols[i] alone: its series, or the exception of
\* its third failed attempt.
C3_Isolation ==
    call.op = "get_multi_stocks" =>
        /\ reply.kind # "raise"
        /\ DOMAIN tasks = DOMAIN call.args.symbols
        /\ call.state = "done" =>
              /\ reply.kind = "return"
              /\ DOMAIN reply.value = DOMAIN call.args.symbols
              /\ \A i \in DOMAIN call.args.symbols :
                    LET h == tasks[i].history
                        last == h[Len(h)]
                    IN /\ Finished(tasks[i])
                       /\ tasks[i].symbol = call.args.symbols[i]
                       /\ tasks[i].query = clean_symbol(call.args.symbols[i])
                       /\ reply.value[i] = last
                       /\ IsError(last) => Len(h) = 3

C3_Witness ==
    /\ call.op = "get_multi_stocks"
    /\ call.state = "done"
    /\ Len(call.args.symbols) = 2
    /\ reply.kind = "return"
    /\ IsError(reply.value[1])
    /\ reply.value[2].kind = "series"
    /\ Len(reply.value[2].df.index) = 1
    /\ Len(tasks[2].history) = 2

CancelRequested ==
    /\ call.op = "get_multi_stocks"
    /\ \/ call.state = "cancelling"
       \/ reply = [kind |-> "raise", exc |-> CancelledError]

\* C10: once the get_multi_stocks call is cancelled, every fetch task that
\* was still pending is cancelled (it ends with CancelledError), no task
\* starts another vendor attempt, and no task ever makes more than 3.
C10_Cancellation ==
    /\ [](\A i \in DOMAIN tasks : tasks[i].attempt_number <= 3)
    /\ [](CancelRequested =>
            \A i \in DOMAIN tasks : Finished(tasks[i]) \/ tasks[i].must_cancel)
    /\ [][CancelRequested =>
            \A i \in DOMAIN tasks :
                /\ tasks'[i].attempt_number = tasks[i].attempt_number
                /\ (~Finished(tasks[i]) /\ Finished(tasks'[i]))
                     => tasks'[i].outcome = Error(CancelledError)]_vars

C10_Witness ==
    /\ reply = [kind |-> "raise", exc |-> CancelledError]
    /\ Len(tasks) = 2
    /\ tasks[1].outcome.kind = "series"
    /\ tasks[2].outcome = Error(CancelledError)
    /\ tasks[2].attempt_number = 2

\* C8: a request whose strategy_name is not in the registry is rejected
\* before the core is invoked: when the rejection is raised no vendor query
\* has been issued, no Backtester constructed and run not called.
C8_RejectBeforeCore ==
    (/\ call.op = "run_backtest"
     /\ call.args.strategy_name \notin strategies
     /\ reply.kind = "raise"
     /\ reply.exc.msg.type = "HTTPException"
     /\ reply.exc.msg.status_code = 400)
    =>
        /\ \A i \in DOMAIN tasks : tasks[i].attempt_number = 0
        /\ ~tester.constructed
        /\ ~tester.run_called

====
